---------------------------- MODULE Spec2Model ----------------------------
(***************************************************************************)
(* Model of one SEOAgent.chat() invocation (src/lib/ai/agent.ts).          *)
(*                                                                         *)
(* The repository ships two chat() implementations in agent.ts:            *)
(*   "fallback" (lines 23-61):  try { generateText with tools, maxSteps }  *)
(*                              catch { generateText without tools }       *)
(*   "rethrow"  (lines 94-199): try { generateText with tools, maxSteps;   *)
(*                              assemble a message } catch { throw }       *)
(* Both drive the multi-step loop through generateText of the `ai`         *)
(* package, AI SDK 4.0 (src/.cursorrules:154-170, 355-368).  The steps of  *)
(* that call are modelled here as the SDK runs them for the arguments the  *)
(* call sites pass: doGenerate, then every tool handler of the step        *)
(* through Promise.all, then ++stepCount, the response messages, the step  *)
(* record and onStepFinish.  The backend and the tool handlers are the     *)
(* environment: a backend call answers or fails, a handler returns or      *)
(* throws (tools/index.ts handlers await scrapers and rethrow).            *)
(***************************************************************************)
EXTENDS Integers, Sequences, FiniteSets

VARIABLES
    variant,          \* which chat() implementation runs
    provider,         \* this.model.provider
    maxSteps,         \* maxSteps passed to the primary generateText
    messages,         \* the messages argument of chat()
    pc,               \* "start" | "generating" | "executing" | "done"
    path,             \* "primary" | "fallback": the generateText call in progress
    stepCount,        \* generateText's local step counter
    responseMessages, \* generateText's local response messages
    steps,            \* generateText's local step records
    curText,          \* text of the model response of the step in progress
    curCalls,         \* tool calls of the step in progress
    running,          \* calls whose handler has been invoked and has not settled
    curResults,       \* calls of the step in progress whose handler returned
    requested,        \* per generation of the run, the tool calls the model asked for
    issued,           \* per generation of the run, the handlers invoked
    handlerReturned,  \* <<step, call>> whose handler returned a value
    handlerThrew,     \* <<step, call>> whose handler threw
    backendCalls,     \* the requests sent to the backend, in order
    hookSteps,        \* the steps delivered to onStepFinish
    primaryStarts,    \* times the tool-enabled generateText was started
    fallbackStarts,   \* times the fallback generateText was started
    primaryError,     \* the error caught by chat()'s catch block
    outcome,          \* "pending" | "returned" | "threw"
    surfaced,         \* the error chat() rejects with
    gtResult,         \* the value the last generateText call resolved with
    returnValue       \* the value chat() resolves with

chatVars == <<variant, provider, maxSteps, messages, pc, path, stepCount,
              responseMessages, steps, curText, curCalls, running, curResults,
              requested, issued, handlerReturned, handlerThrew, backendCalls,
              hookSteps, primaryStarts, fallbackStarts, primaryError, outcome,
              surfaced, gtResult, returnValue>>

\* ---- the streaming chat(): doStream and its TransformStream (part_007) ----
VARIABLES
    records,          \* the NDJSON records the backend answers with, in order
    sent,             \* bytes of the response body already read as chunks
    emitted,          \* the stream parts the transform enqueued, in order
    uuids,            \* crypto.randomUUID() values drawn so far
    dropped,          \* chunks whose transform threw into its catch block
    closed            \* the response body has ended

streamVars == <<records, sent, emitted, uuids, dropped, closed>>

StreamIdle ==
    /\ records = <<>>
    /\ sent = 0
    /\ emitted = <<>>
    /\ uuids = 0
    /\ dropped = 0
    /\ closed = FALSE

\* ---- one backend request: the fetch of ollama.ts:17-42 or part_007:247 ----
VARIABLES
    site,             \* which fetch: "wrapper" (ollama.ts) or "doStream" (part_007)
    httpStatus,       \* the status the backend answers with, if it answers
    bodyLen,          \* chunks the backend sends in the body, if it goes on
    fpc,              \* "idle", "awaiting" (await fetch), "returned", "threw"
    timer,            \* the setTimeout of the call: "none", "armed", "fired", "cleared"
    signalAborted,    \* controller.signal of the call is aborted
    callerAborted,    \* init.signal / options.abortSignal is aborted
    conn,             \* "none", "open" (request sent), "body" (body open), "closed"
    bodyRead,         \* body chunks delivered so far
    fetchError        \* what a rejected call rejected with

fetchVars == <<site, httpStatus, bodyLen, fpc, timer, signalAborted,
               callerAborted, conn, bodyRead, fetchError>>

FetchIdle ==
    /\ site = "wrapper"
    /\ httpStatus = 200
    /\ bodyLen = 0
    /\ fpc = "idle"
    /\ timer = "none"
    /\ signalAborted = FALSE
    /\ callerAborted = FALSE
    /\ conn = "none"
    /\ bodyRead = 0
    /\ fetchError = "none"

\* ---- the same turn run twice against a backend stub that repeats itself ----
VARIABLES
    replayKind,       \* what is replayed: "stream" (part_007) or "tools" (part_009)
    stub,             \* the tool calls the stub answers with, the same in both runs
    runPos,           \* per run, how many of them the run has handled
    runOut            \* per run, what it produced for each

replayVars == <<replayKind, stub, runPos, runOut>>

Runs == {1, 2}

ReplayIdle ==
    /\ replayKind = "stream"
    /\ stub = <<>>
    /\ runPos = [r \in Runs |-> 0]
    /\ runOut = [r \in Runs |-> <<>>]

\* ---- the tool instances of tools/index.ts:63-69, one per process ----
VARIABLES
    websites,         \* webpageScraper.websites: url -> scraped content
    documents,        \* memoryVectorStore.documents
    observed          \* per conversation, whose writes its tool calls returned

sharedVars == <<websites, documents, observed>>

Conversations == {"c1", "c2"}

SharedIdle ==
    /\ websites = {}
    /\ documents = <<>>
    /\ observed = [c \in Conversations |-> {}]

\* ---- AIMemory of part_010:54-138, one chat's memory ----
VARIABLES
    stored,           \* this.store[chatId] exists
    shortTerm,        \* store[chatId].shortTerm
    longTerm,         \* store[chatId].longTerm: the batches whose facts were pushed
    added,            \* messages passed to addToMemory so far
    batches,          \* the arrays passed to processMessages, in call order
    processing        \* calls of addToMemory awaiting processMessages (by batch)

memoryVars == <<stored, shortTerm, longTerm, added, batches, processing>>

MemoryIdle ==
    /\ stored = FALSE
    /\ shortTerm = <<>>
    /\ longTerm = <<>>
    /\ added = 0
    /\ batches = <<>>
    /\ processing = {}

\* ---- one request to the chat route, app/api/chat/route.ts ----
VARIABLES
    method,           \* "POST" or "DELETE"
    bodyOk,           \* request.json() parses (POST)
    hasId,            \* the url carries ?id= (DELETE)
    hasSession,       \* auth() finds a session with a user id
    latestRole,       \* role of the last entry of messages (POST)
    rpc,              \* where the handler is
    routeCalls,       \* saveChat, saveMessages, agent.chat, deleteChatById: in call order
    saved,            \* messages of this request stored by saveMessages
    agentOutcome,     \* "none", "returned", "threw"
    respStatus        \* status of the Response returned, 0 while there is none

routeVars == <<method, bodyOk, hasId, hasSession, latestRole, rpc,
               routeCalls, saved, agentOutcome, respStatus>>

RouteIdle ==
    /\ method = "POST"
    /\ bodyOk = TRUE
    /\ hasId = TRUE
    /\ hasSession = TRUE
    /\ latestRole = "user"
    /\ rpc = "start"
    /\ routeCalls = <<>>
    /\ saved = {}
    /\ agentOutcome = "none"
    /\ respStatus = 0

\* ---- one WebpageScraper of scripts/tools/WebpageScraper.ts:88-149 ----
VARIABLES
    maxDepth,         \* this.maxDepth
    maxPages,         \* this.maxPages
    seen,             \* this.seen
    fetched,          \* per url, how many times fetch(url) was issued
    scraping,         \* urls whose scrapeWebsite call awaits its fetch
    failed,           \* urls whose scrapeWebsite call threw out of its try block
    lastScrape        \* the latest call: its url and how it went so far

scraperVars == <<maxDepth, maxPages, seen, fetched, scraping, failed, lastScrape>>

ScrapeUrls == {"u1", "u2", "u3"}

NoScrape == [url |-> "none", outcome |-> "none"]

ScraperIdle ==
    /\ maxDepth = 0
    /\ maxPages = 0
    /\ seen = {}
    /\ fetched = [u \in ScrapeUrls |-> 0]
    /\ scraping = {}
    /\ failed = {}
    /\ lastScrape = NoScrape

\* ---- one ResearchCrawler.researchTopic call, lib/ai/tools/ResearchCrawler.ts ----
VARIABLES
    crawl,            \* per source, the crawlPage promise: "pending", "fulfilled", "rejected"
    race,             \* per source, timeout(crawlPage, 10000): also "timeout"
    research          \* what researchTopic did: kind, sources, relevance

crawlerVars == <<crawl, race, research>>

NumSources == 4

Sources == 1..NumSources

NoResearch == [kind |-> "pending", sources |-> <<>>, relevance |-> "none"]

CrawlerIdle ==
    /\ crawl = [i \in Sources |-> "pending"]
    /\ race = [i \in Sources |-> "pending"]
    /\ research = NoResearch


\* ---- the Message and Vote tables and one deleteTrailingMessages call ----
VARIABLES
    messageTable,     \* rows of Message: [id, chatId, createdAt]
    voteTable,        \* rows of Vote: [chatId, messageId]
    dtmPc,            \* deleteTrailingMessages: "idle", "found", "done"
    dtmRow,           \* const [message] = await getMessageById({ id })
    dtmResult         \* the latest finished call: its id, whether a row had
                      \* it, the ids of the rows its DELETE matched and of
                      \* the rows that left Message, how it ended

dbVars == <<messageTable, voteTable, dtmPc, dtmRow, dtmResult>>

MessageIds == {"m1", "m2", "m3"}

ChatIds == {"c1", "c2"}

\* no row: [message] of an empty result is undefined
NoRow == [id |-> "none", chatId |-> "none", createdAt |-> 0]

NoDtm == [id |-> "none", found |-> FALSE, matched |-> {}, deleted |-> {},
          outcome |-> "none"]

DbIdle ==
    /\ messageTable = {}
    /\ voteTable = {}
    /\ dtmPc = "idle"
    /\ dtmRow = NoRow
    /\ dtmResult = NoDtm


\* ---- one ResearchCrawler.generateBlogPost call (ResearchCrawler.ts:229-282) ----
VARIABLES
    targetWordCount,      \* requirements.targetWordCount
    minSections,          \* requirements.minSections
    remainingWords,       \* let remainingWords
    wordsPerMainSection,  \* const wordsPerMainSection
    sections,             \* the wordCount of each section pushed so far
    bpc,                  \* "intro", "main", "done"
    blog                  \* how the call ended and its totalWordCount

blogVars == <<targetWordCount, minSections, remainingWords,
              wordsPerMainSection, sections, bpc, blog>>

NoBlog == [kind |-> "pending", totalWordCount |-> 0]

BlogIdle ==
    /\ targetWordCount = 0
    /\ minSections = 0
    /\ remainingWords = 0
    /\ wordsPerMainSection = 0
    /\ sections = <<>>
    /\ bpc = "intro"
    /\ blog = NoBlog

\* the variables of the other components, which a chat() run leaves alone
nonChatVars ==
    <<streamVars,
      fetchVars,
      replayVars,
      sharedVars,
      memoryVars,
      routeVars,
      scraperVars,
      crawlerVars,
      dbVars,
      blogVars>>

\* the other components at rest
NonChatIdle ==
    /\ StreamIdle
    /\ FetchIdle
    /\ ReplayIdle
    /\ SharedIdle
    /\ MemoryIdle
    /\ RouteIdle
    /\ ScraperIdle
    /\ CrawlerIdle
    /\ DbIdle
    /\ BlogIdle

vars == <<chatVars, nonChatVars>>

---------------------------------------------------------------------------
(* Bounds of the model *)

\* the primary call is modelled for every step limit 1..MaxStepsBound
\* (the call sites pass 25, 5 and 10)
MaxStepsBound == 3
\* tool calls one model response may carry
MaxCalls == 2

Variants == {"fallback", "rethrow"}
Providers == {"ollama", "openai", "google"}
Inputs == {"m1", "m2"}
Texts == {"", "a", "b"}
BackendErrors == {"NetworkError", "ProviderError"}

NoError == [origin |-> "none", kind |-> "none", status |-> FALSE]
NoResult == [text |-> "", finishReason |-> "none", nSteps |-> 0,
             toolCalls |-> {}, toolResults |-> {}]
NoReturn == [kind |-> "none", text |-> "", finishReason |-> "none",
             nSteps |-> 0, toolResults |-> <<>>, functionCall |-> <<>>]

---------------------------------------------------------------------------
(* The arguments chat() passes to generateText *)

\* agent.ts:31,150: the primary call passes `tools`
PrimaryTools == TRUE
\* a fallback that passes the tools again
MutFallbackTools == TRUE

\* agent.ts:54-58: the fallback call passes model, messages, temperature only
FallbackTools == FALSE
\* agent.ts:54-58: no maxSteps is passed, so generateText runs a single step
FallbackMaxSteps == 1

CallTools(p) == IF p = "primary" THEN PrimaryTools ELSE FallbackTools
CallMaxSteps(p) == IF p = "primary" THEN maxSteps ELSE FallbackMaxSteps

\* the request one doGenerate sends: generateText never streams, the
\* primary call carries a system prompt, the prompt is the caller's messages
\* followed by the response messages gathered so far
Request(p) ==
    [path |-> p, messages |-> messages, system |-> (p = "primary"),
     tools |-> CallTools(p), stream |-> FALSE,
     history |-> Len(responseMessages)]

---------------------------------------------------------------------------
(* generateText: the part of one step after the tools have settled *)

\* the finish reason the provider reports for a response
FinishReason(calls) == IF calls = {} THEN "stop" ELSE "tool-calls"

\* a loop that never takes a second step
MutNextStepTypeSingleStep(count, calls, results, limit) == "done"

\* an off-by-one step limit
MutNextStepTypeOffByOne(count, calls, results, limit) ==
    IF count <= limit /\ calls # {} /\ Cardinality(results) = Cardinality(calls)
    THEN "tool-result"
    ELSE "done"

\* a loop that goes on whether or not the step carried tool calls
MutNextStepTypeIgnoresCalls(count, calls, results, limit) ==
    IF count < limit THEN "tool-result" ELSE "done"

\* `count` is the step counter after ++stepCount
NextStepType(count, calls, results, limit) ==
    IF count < limit /\ calls # {} /\ Cardinality(results) = Cardinality(calls)
    THEN "tool-result"
    ELSE "done"

\* the step index of the generation in progress
CurStep == Len(issued)

\* handlers of the step in progress that have not settled
CurRunning == {r \in running : r[1] = CurStep}

\* a step that does not wait for its handlers
MutAllSettledAtOnce == TRUE

\* Promise.all over the handlers of the step resolves once all have settled
AllSettled == CurRunning = {}

OrderedCalls(S) == SelectSeq([i \in 1..MaxCalls |-> i], LAMBDA i : i \in S)

StepRecord(n, text, calls, results) ==
    [index |-> n, text |-> text, toolCalls |-> calls,
     toolResults |-> results, finishReason |-> FinishReason(calls)]

\* response messages that leave the tool results out
MutToResponseMessagesNoResults(n, text, calls, results) ==
    <<[role |-> "assistant", step |-> n, text |-> text, calls |-> calls]>>

\* one assistant message, and one tool message when the step has results
ToResponseMessages(n, text, calls, results) ==
    <<[role |-> "assistant", step |-> n, text |-> text, calls |-> calls]>>
    \o (IF results # {}
        THEN <<[role |-> "tool", step |-> n, text |-> "", calls |-> results]>>
        ELSE <<>>)

---------------------------------------------------------------------------
(* chat(): what it assembles from the hook's observations and returns *)

RECURSIVE FinalText(_)
\* agent.ts:155-157: finalText is the text of the last step that had text
FinalText(hs) ==
    IF hs = <<>> THEN ""
    ELSE IF hs[Len(hs)].text # "" THEN hs[Len(hs)].text
    ELSE FinalText(SubSeq(hs, 1, Len(hs) - 1))

RECURSIVE HookToolResults(_)
\* agent.ts:158-160: toolResults.push(...step.toolResults) in step order
HookToolResults(hs) ==
    IF hs = <<>> THEN <<>>
    ELSE HookToolResults(SubSeq(hs, 1, Len(hs) - 1))
         \o [i \in 1..Len(OrderedCalls(hs[Len(hs)].toolResults)) |->
                <<hs[Len(hs)].index, OrderedCalls(hs[Len(hs)].toolResults)[i]>>]

\* agent.ts:49,59 return the generateText result; agent.ts:173-187 returns
\* an assistant message built from finalText and the gathered tool results
ChatReturn(v, res, hs) ==
    IF v = "fallback"
    THEN [kind |-> "generateTextResult", text |-> res.text,
          finishReason |-> res.finishReason, nSteps |-> res.nSteps,
          toolResults |-> HookToolResults(<<>>), functionCall |-> <<>>]
    ELSE [kind |-> "message",
          text |-> (IF FinalText(hs) # "" THEN FinalText(hs) ELSE res.text),
          finishReason |-> "none", nSteps |-> 0,
          toolResults |-> HookToolResults(hs),
          functionCall |-> (IF HookToolResults(hs) # <<>>
                            THEN <<HookToolResults(hs)[1]>> ELSE <<>>)]

---------------------------------------------------------------------------
(* chat(): the catch blocks *)

ToolExecutionError == [origin |-> "primary", kind |-> "ToolExecutionError",
                       status |-> FALSE]

InvalidToolArgumentsError == [origin |-> "primary",
                              kind |-> "InvalidToolArgumentsError",
                              status |-> FALSE]

\* generateText parses every tool call of a response against the zod
\* `parameters` of its tool before any handler runs; `bad` are the calls
\* whose arguments do not match (part_009:56-58, 80-82, part_004:196-215)
ArgumentsAccepted(calls, bad) == calls \cap bad = {}

\* a catch block that runs chat() again when the fallback fails
MutAfterFallbackFailure == "start"

\* agent.ts:50-60: an error thrown inside the catch block (by the fallback
\* generateText) leaves chat(); nothing retries and nothing re-enters try
AfterFallbackFailure == "done"

\* agent.ts:54-59: the rejection of the fallback generateText is not caught,
\* so chat() rejects with it
FallbackFailureError(primaryErr, fallbackErr) == fallbackErr

\* agent.ts:188-198: a Google error with a status is replaced by a new Error,
\* any other error is rethrown as it is
RethrownError(prov, e) ==
    IF prov = "google" /\ e.status
    THEN [origin |-> e.origin, kind |-> "GoogleAPIError", status |-> FALSE]
    ELSE e

\* An error e escapes the generateText call in progress.
Raise(e) ==
    IF path = "primary" /\ variant = "fallback"
    THEN \* agent.ts:50-58: catch, then start the fallback generateText
         /\ primaryError' = e
         /\ fallbackStarts' = fallbackStarts + 1
         /\ path' = "fallback"
         /\ pc' = "generating"
         /\ stepCount' = 0
         /\ responseMessages' = <<>>
         /\ steps' = <<>>
         /\ curText' = ""
         /\ curCalls' = {}
         /\ curResults' = {}
         /\ UNCHANGED <<outcome, surfaced>>
    ELSE IF path = "primary"
    THEN \* agent.ts:188-198
         /\ primaryError' = e
         /\ surfaced' = RethrownError(provider, e)
         /\ outcome' = "threw"
         /\ pc' = "done"
         /\ UNCHANGED <<fallbackStarts, path, stepCount, responseMessages,
                        steps, curText, curCalls, curResults>>
    ELSE \* agent.ts:54-59: thrown inside the catch block
         /\ surfaced' = FallbackFailureError(primaryError, e)
         /\ pc' = AfterFallbackFailure
         /\ outcome' = IF AfterFallbackFailure = "done" THEN "threw" ELSE outcome
         /\ UNCHANGED <<primaryError, fallbackStarts, path, stepCount,
                        responseMessages, steps, curText, curCalls, curResults>>

---------------------------------------------------------------------------
ChatInit ==
    /\ variant \in Variants
    /\ provider \in (IF variant = "fallback" THEN {"ollama"} ELSE Providers)
    /\ maxSteps \in 1..MaxStepsBound
    /\ messages \in Inputs
    /\ pc = "start"
    /\ path = "primary"
    /\ stepCount = 0
    /\ responseMessages = <<>>
    /\ steps = <<>>
    /\ curText = ""
    /\ curCalls = {}
    /\ running = {}
    /\ curResults = {}
    /\ requested = <<>>
    /\ issued = <<>>
    /\ handlerReturned = {}
    /\ handlerThrew = {}
    /\ backendCalls = <<>>
    /\ hookSteps = <<>>
    /\ primaryStarts = 0
    /\ fallbackStarts = 0
    /\ primaryError = NoError
    /\ outcome = "pending"
    /\ surfaced = NoError
    /\ gtResult = NoResult
    /\ returnValue = NoReturn

Init == ChatInit /\ NonChatIdle

\* no chat() run of the generateText variants in progress
ChatIdle ==
    /\ ChatInit
    /\ variant = "fallback"
    /\ maxSteps = 1
    /\ messages = "m1"

\* every component other than g at rest
OthersIdle(g) ==
    /\ ChatIdle
    /\ (IF g = "stream" THEN TRUE ELSE StreamIdle)
    /\ (IF g = "fetch" THEN TRUE ELSE FetchIdle)
    /\ (IF g = "replay" THEN TRUE ELSE ReplayIdle)
    /\ (IF g = "shared" THEN TRUE ELSE SharedIdle)
    /\ (IF g = "memory" THEN TRUE ELSE MemoryIdle)
    /\ (IF g = "route" THEN TRUE ELSE RouteIdle)
    /\ (IF g = "scraper" THEN TRUE ELSE ScraperIdle)
    /\ (IF g = "crawler" THEN TRUE ELSE CrawlerIdle)
    /\ (IF g = "db" THEN TRUE ELSE DbIdle)
    /\ (IF g = "blog" THEN TRUE ELSE BlogIdle)

\* a step of component g leaves every other component as it is
OthersUnchanged(g) ==
    /\ UNCHANGED chatVars
    /\ (IF g = "stream" THEN TRUE ELSE UNCHANGED streamVars)
    /\ (IF g = "fetch" THEN TRUE ELSE UNCHANGED fetchVars)
    /\ (IF g = "replay" THEN TRUE ELSE UNCHANGED replayVars)
    /\ (IF g = "shared" THEN TRUE ELSE UNCHANGED sharedVars)
    /\ (IF g = "memory" THEN TRUE ELSE UNCHANGED memoryVars)
    /\ (IF g = "route" THEN TRUE ELSE UNCHANGED routeVars)
    /\ (IF g = "scraper" THEN TRUE ELSE UNCHANGED scraperVars)
    /\ (IF g = "crawler" THEN TRUE ELSE UNCHANGED crawlerVars)
    /\ (IF g = "db" THEN TRUE ELSE UNCHANGED dbVars)
    /\ (IF g = "blog" THEN TRUE ELSE UNCHANGED blogVars)

\* agent.ts:23-28, 94-104: chat() enters try and calls generateText
StartPrimary ==
    /\ pc = "start"
    /\ pc' = "generating"
    /\ path' = "primary"
    /\ primaryStarts' = primaryStarts + 1
    /\ stepCount' = 0
    /\ responseMessages' = <<>>
    /\ steps' = <<>>
    /\ curText' = ""
    /\ curCalls' = {}
    /\ curResults' = {}
    /\ UNCHANGED nonChatVars
    /\ UNCHANGED <<variant, provider, maxSteps, messages, running, requested, issued,
                   handlerReturned, handlerThrew, backendCalls, hookSteps,
                   fallbackStarts, primaryError, outcome, surfaced, gtResult,
                   returnValue>>

\* doGenerate answers with a text and n tool calls; generateText invokes the
\* handler of every call at once (executeTools: Promise.all over the calls).
\* A request without tools gets no tool calls back.
BackendRespond(text, n) ==
    /\ pc = "generating"
    /\ n \in (IF CallTools(path) THEN 0..MaxCalls ELSE {0})
    /\ backendCalls' = Append(backendCalls, Request(path))
    /\ ArgumentsAccepted(1..n, {})
    /\ requested' = Append(requested, [calls |-> 1..n, invalid |-> {}])
    /\ issued' = Append(issued, 1..n)
    /\ curText' = text
    /\ curCalls' = 1..n
    /\ curResults' = {}
    /\ running' = running \cup {<<Len(issued) + 1, c>> : c \in 1..n}
    /\ pc' = "executing"
    /\ UNCHANGED <<variant, provider, maxSteps, messages, path, stepCount,
                   responseMessages, steps, handlerReturned, handlerThrew,
                   hookSteps, primaryStarts, fallbackStarts, primaryError,
                   outcome, surfaced, gtResult, returnValue>>
    /\ UNCHANGED nonChatVars

\* doGenerate answers with n tool calls of which those in `bad` carry
\* arguments that fail their tool's schema: parsing the calls throws
\* InvalidToolArgumentsError, generateText rejects, no handler of the step
\* is invoked and no step is recorded
BackendRespondInvalid(text, n, bad) ==
    /\ pc = "generating"
    /\ CallTools(path)
    /\ n \in 1..MaxCalls
    /\ bad \subseteq 1..n
    /\ ~ArgumentsAccepted(1..n, bad)
    /\ backendCalls' = Append(backendCalls, Request(path))
    /\ requested' = Append(requested, [calls |-> 1..n, invalid |-> bad])
    /\ issued' = Append(issued, {})
    /\ Raise(InvalidToolArgumentsError)
    /\ UNCHANGED <<variant, provider, maxSteps, messages, running,
                   handlerReturned, handlerThrew, hookSteps, primaryStarts,
                   gtResult, returnValue>>
    /\ UNCHANGED nonChatVars

\* doGenerate rejects (transport or provider failure): generateText rejects
BackendFail(kind, status) ==
    /\ pc = "generating"
    /\ backendCalls' = Append(backendCalls, Request(path))
    /\ requested' = Append(requested, [calls |-> {}, invalid |-> {}])
    /\ issued' = Append(issued, {})
    /\ Raise([origin |-> path, kind |-> kind, status |-> status])
    /\ UNCHANGED nonChatVars
    /\ UNCHANGED <<variant, provider, maxSteps, messages, running,
                   handlerReturned, handlerThrew, hookSteps, primaryStarts,
                   gtResult, returnValue>>

\* a tool handler returns; its value counts only while generateText still
\* awaits the Promise.all of that step
ToolReturn(s, c) ==
    /\ <<s, c>> \in running
    /\ running' = running \ {<<s, c>>}
    /\ handlerReturned' = handlerReturned \cup {<<s, c>>}
    /\ curResults' = IF pc = "executing" /\ s = CurStep
                     THEN curResults \cup {c} ELSE curResults
    /\ UNCHANGED nonChatVars
    /\ UNCHANGED <<variant, provider, maxSteps, messages, pc, path, stepCount,
                   responseMessages, steps, curText, curCalls, requested, issued,
                   handlerThrew, backendCalls, hookSteps, primaryStarts,
                   fallbackStarts, primaryError, outcome, surfaced, gtResult,
                   returnValue>>

\* a tool handler throws: Promise.all rejects at once, executeTools wraps the
\* error in a ToolExecutionError and generateText rejects with it; a handler
\* that throws after the call was already rejected changes nothing more
ToolThrow(s, c) ==
    /\ <<s, c>> \in running
    /\ running' = running \ {<<s, c>>}
    /\ handlerThrew' = handlerThrew \cup {<<s, c>>}
    /\ IF pc = "executing" /\ s = CurStep
       THEN Raise(ToolExecutionError)
       ELSE UNCHANGED <<pc, path, stepCount, responseMessages, steps, curText,
                        curCalls, curResults, primaryError, fallbackStarts,
                        outcome, surfaced>>
    /\ UNCHANGED nonChatVars
    /\ UNCHANGED <<variant, provider, maxSteps, messages, requested, issued,
                   handlerReturned, backendCalls, hookSteps, primaryStarts,
                   gtResult, returnValue>>

\* every handler of the step returned: ++stepCount, the response messages and
\* the step record are appended, onStepFinish runs, and the loop either goes
\* on to the next doGenerate or generateText resolves and chat() returns
StepFinish ==
    /\ pc = "executing"
    /\ AllSettled
    /\ stepCount' = stepCount + 1
    /\ responseMessages' = responseMessages
           \o ToResponseMessages(stepCount + 1, curText, curCalls, curResults)
    /\ steps' = Append(steps, StepRecord(stepCount + 1, curText, curCalls, curResults))
    /\ hookSteps' = IF path = "primary"
                    THEN Append(hookSteps,
                                StepRecord(stepCount + 1, curText, curCalls, curResults))
                    ELSE hookSteps
    /\ IF NextStepType(stepCount + 1, curCalls, curResults, CallMaxSteps(path)) = "done"
       THEN /\ gtResult' = [text |-> curText,
                            finishReason |-> FinishReason(curCalls),
                            nSteps |-> Len(steps) + 1,
                            toolCalls |-> curCalls,
                            toolResults |-> curResults]
            /\ returnValue' = ChatReturn(variant, gtResult', hookSteps')
            /\ outcome' = "returned"
            /\ pc' = "done"
            /\ UNCHANGED <<curText, curCalls, curResults>>
       ELSE /\ pc' = "generating"
            /\ curText' = ""
            /\ curCalls' = {}
            /\ curResults' = {}
            /\ UNCHANGED <<gtResult, returnValue, outcome>>
    /\ UNCHANGED nonChatVars
    /\ UNCHANGED <<variant, provider, maxSteps, messages, path, running,
                   requested, issued,
                   handlerReturned, handlerThrew, backendCalls, primaryStarts,
                   fallbackStarts, primaryError, surfaced>>

Next ==
    \/ StartPrimary
    \/ \E text \in Texts, n \in 0..MaxCalls : BackendRespond(text, n)
    \/ \E text \in Texts, n \in 1..MaxCalls, bad \in SUBSET (1..MaxCalls) :
          BackendRespondInvalid(text, n, bad)
    \/ \E kind \in BackendErrors, status \in BOOLEAN : BackendFail(kind, status)
    \/ \E s \in 1..(MaxStepsBound + 1), c \in 1..MaxCalls : ToolReturn(s, c)
    \/ \E s \in 1..(MaxStepsBound + 1), c \in 1..MaxCalls : ToolThrow(s, c)
    \/ StepFinish

Spec == Init /\ [][Next]_vars

---------------------------------------------------------------------------
(* Observations used by the properties *)

PrimaryCalls == {i \in DOMAIN backendCalls : backendCalls[i].path = "primary"}
FallbackCalls == {i \in DOMAIN backendCalls : backendCalls[i].path = "fallback"}

\* a caller reads a step-limit stop off the generateText result: the last
\* step of maxSteps steps still finished with tool calls
Truncated == gtResult.finishReason = "tool-calls" /\ gtResult.nSteps = maxSteps

\* every generation of the tool-enabled call was answered with a tool call
AlwaysRequestsTools ==
    /\ PrimaryCalls # {}
    /\ \A i \in PrimaryCalls : issued[i] # {}

---------------------------------------------------------------------------
(* The streaming chat() of part_007:177-380: doStream reads the NDJSON     *)
(* response body chunk by chunk through a TransformStream.                 *)

MaxRecords == 3

ToolNames == <<"analyze", "analyzeKeywords">>

ArgFragments == {"x", "y"}

\* one line of the response body: {"message": {content, function_call}};
\* `call` is the tool call of the turn the arguments belong to (0: none)
StreamRecords ==
    {[content |-> t, call |-> 0, args |-> ""] : t \in {"a", "b"}}
    \cup {[content |-> "", call |-> c, args |-> f] :
             c \in DOMAIN ToolNames, f \in ArgFragments}
    \cup {[content |-> "", call |-> 0, args |-> ""]}

RecordSeqs == UNION {[1..n -> StreamRecords] : n \in 1..MaxRecords}

\* the bytes of one record on the wire: its JSON text, then a newline
LineOf(r) == <<[ch |-> "{", of |-> r], [ch |-> "body", of |-> r],
               [ch |-> "}", of |-> r], [ch |-> "nl", of |-> r]>>

RECURSIVE Wire(_)
Wire(rs) == IF rs = <<>> THEN <<>> ELSE LineOf(Head(rs)) \o Wire(Tail(rs))

\* index of the first newline of a chunk, Len + 1 when it has none
FirstNewline(chunk) ==
    IF \E i \in DOMAIN chunk : chunk[i].ch = "nl"
    THEN CHOOSE i \in DOMAIN chunk :
            /\ chunk[i].ch = "nl"
            /\ \A j \in 1..(i - 1) : chunk[j].ch # "nl"
    ELSE Len(chunk) + 1

RECURSIVE SplitLines(_)
\* part_007:285: text.split('\n').filter(Boolean)
SplitLines(chunk) ==
    IF chunk = <<>> THEN <<>>
    ELSE LET k == FirstNewline(chunk)
             line == SubSeq(chunk, 1, k - 1)
         IN (IF line = <<>> THEN <<>> ELSE <<line>>)
            \o SplitLines(SubSeq(chunk, k + 1, Len(chunk)))

\* part_007:288: JSON.parse(line) returns only for the whole text of a record
Parses(line) ==
    /\ Len(line) = 3
    /\ line[1].ch = "{" /\ line[2].ch = "body" /\ line[3].ch = "}"

\* part_007:290-316: the parts enqueued for one parsed record; n UUIDs were
\* drawn before, crypto.randomUUID() gives a value none of them has
PartsOf(r, n) ==
    (IF r.content # ""
     THEN <<[type |-> "text-delta", text |-> r.content,
             toolCallId |-> 0, toolName |-> "", call |-> 0]>>
     ELSE <<>>)
    \o (IF r.call # 0
        THEN <<[type |-> "tool-call-delta", text |-> r.args,
                toolCallId |-> n + 1, toolName |-> ToolNames[r.call],
                call |-> r.call]>>
        ELSE <<>>)

RECURSIVE TransformLines(_, _)
\* part_007:284-320: the lines of one chunk in order; the first line that
\* does not parse throws into the catch, which logs and drops the rest
TransformLines(lines, n) ==
    IF lines = <<>> THEN <<>>
    ELSE IF ~Parses(Head(lines)) THEN <<>>
    ELSE PartsOf(Head(lines)[2].of, n)
         \o TransformLines(Tail(lines),
                           n + (IF Head(lines)[2].of.call # 0 THEN 1 ELSE 0))

Transform(chunk, n) == TransformLines(SplitLines(chunk), n)

\* part_007:288, 318-320: some line of the chunk makes JSON.parse throw
Throws(chunk) ==
    \E i \in DOMAIN SplitLines(chunk) : ~Parses(SplitLines(chunk)[i])

DeltasIn(parts) == {i \in DOMAIN parts : parts[i].type = "tool-call-delta"}

StreamInit ==
    /\ OthersIdle("stream")
    /\ records \in RecordSeqs
    /\ sent = 0
    /\ emitted = <<>>
    /\ uuids = 0
    /\ dropped = 0
    /\ closed = FALSE

\* the body delivers its next k bytes as one chunk: transform(chunk)
ReadChunk(k) ==
    /\ ~closed
    /\ k \in 1..(Len(Wire(records)) - sent)
    /\ LET parts == Transform(SubSeq(Wire(records), sent + 1, sent + k), uuids)
       IN /\ emitted' = emitted \o parts
          /\ uuids' = uuids + Cardinality(DeltasIn(parts))
    /\ dropped' = IF Throws(SubSeq(Wire(records), sent + 1, sent + k))
                  THEN dropped + 1 ELSE dropped
    /\ sent' = sent + k
    /\ UNCHANGED <<records, closed>>
    /\ OthersUnchanged("stream")

\* the body ends; the TransformStream has no flush() and enqueues nothing
StreamEnd ==
    /\ ~closed
    /\ sent = Len(Wire(records))
    /\ closed' = TRUE
    /\ UNCHANGED <<records, sent, emitted, uuids, dropped>>
    /\ OthersUnchanged("stream")

StreamNext ==
    \/ \E k \in 1..Len(Wire(records)) : ReadChunk(k)
    \/ StreamEnd

StreamSpec == StreamInit /\ [][StreamNext]_vars

\* the text the backend produced, record by record
RECURSIVE BackendText(_)
BackendText(rs) ==
    IF rs = <<>> THEN <<>>
    ELSE (IF Head(rs).content # "" THEN <<Head(rs).content>> ELSE <<>>)
         \o BackendText(Tail(rs))

\* the texts of the text-delta parts, in the order enqueued
RECURSIVE DeltaText(_)
DeltaText(parts) ==
    IF parts = <<>> THEN <<>>
    ELSE (IF Head(parts).type = "text-delta" THEN <<Head(parts).text>> ELSE <<>>)
         \o DeltaText(Tail(parts))

---------------------------------------------------------------------------
(* One backend request. ollama.ts:17-42 wraps fetch with a timeout;        *)
(* part_007:247 calls fetch directly.                                      *)

MaxBodyChunks == 2

Sites == {"wrapper", "doStream"}

Statuses == {200, 404, 500}

\* the signal the request is made with: ollama.ts:23-24 spreads init and then
\* sets signal: controller.signal, which replaces init.signal; part_007:247-274
\* passes no signal
RequestSignal(s) == IF s = "wrapper" THEN "controller" ELSE "none"

\* ollama.ts:19: only the wrapper arms a timer
ArmsTimer(s) == s = "wrapper"

ConnLive == conn \in {"open", "body"}

TimerLive == timer = "armed"

\* a wrapper without the finally block
MutAfterFinallyKeepsTimer(t) == t

\* ollama.ts:39-41: finally { clearTimeout(timeoutId) }
AfterFinally(t) == IF t = "armed" THEN "cleared" ELSE t

FetchInit ==
    /\ OthersIdle("fetch")
    /\ site \in Sites
    /\ httpStatus \in Statuses
    /\ bodyLen \in 0..MaxBodyChunks
    /\ fpc = "idle"
    /\ timer = "none"
    /\ signalAborted = FALSE
    /\ callerAborted = FALSE
    /\ conn = "none"
    /\ bodyRead = 0
    /\ fetchError = "none"

\* ollama.ts:18-22, part_007:247: the timer is armed and the request sent
FetchCall ==
    /\ fpc = "idle"
    /\ fpc' = "awaiting"
    /\ timer' = IF ArmsTimer(site) THEN "armed" ELSE "none"
    /\ conn' = "open"
    /\ UNCHANGED <<site, httpStatus, bodyLen, signalAborted, callerAborted,
                   bodyRead, fetchError>>
    /\ OthersUnchanged("fetch")

\* the abort of `sig` ("controller" or "caller") acts on the request only if
\* the request was made with that signal: the connection is closed, and a
\* pending fetch rejects with AbortError and runs the finally block
AbortEffect(sig) ==
    IF RequestSignal(site) = sig /\ ConnLive
    THEN /\ conn' = "closed"
         /\ IF fpc = "awaiting"
            THEN fpc' = "threw" /\ fetchError' = "AbortError"
            ELSE UNCHANGED <<fpc, fetchError>>
    ELSE UNCHANGED <<conn, fpc, fetchError>>

\* the caller of the run aborts while the request is in flight
CallerAbort ==
    /\ ConnLive
    /\ ~callerAborted
    /\ callerAborted' = TRUE
    /\ AbortEffect("caller")
    /\ timer' = IF fpc' = "threw" THEN AfterFinally(timer) ELSE timer
    /\ UNCHANGED <<site, httpStatus, bodyLen, signalAborted, bodyRead>>
    /\ OthersUnchanged("fetch")

\* ollama.ts:19: OLLAMA_TIMEOUT elapsed, the callback runs controller.abort()
TimerFire ==
    /\ timer = "armed"
    /\ timer' = "fired"
    /\ signalAborted' = TRUE
    /\ AbortEffect("controller")
    /\ UNCHANGED <<site, httpStatus, bodyLen, callerAborted, bodyRead>>
    /\ OthersUnchanged("fetch")

\* the backend answers with headers: fetch resolves; ollama.ts:34-38 and
\* part_007:276-278 throw on a status that is not ok and return the response
\* otherwise; the finally block clears the timer; nothing closes the body
BackendHeaders ==
    /\ fpc = "awaiting"
    /\ conn = "open"
    /\ conn' = "body"
    /\ IF httpStatus = 200
       THEN fpc' = "returned" /\ UNCHANGED fetchError
       ELSE fpc' = "threw" /\ fetchError' = "HTTPError"
    /\ timer' = AfterFinally(timer)
    /\ UNCHANGED <<site, httpStatus, bodyLen, signalAborted, callerAborted,
                   bodyRead>>
    /\ OthersUnchanged("fetch")

\* the request fails in transport: fetch rejects, the finally block runs
NetworkFailure ==
    /\ fpc = "awaiting"
    /\ conn = "open"
    /\ conn' = "closed"
    /\ fpc' = "threw"
    /\ fetchError' = "NetworkError"
    /\ timer' = AfterFinally(timer)
    /\ UNCHANGED <<site, httpStatus, bodyLen, signalAborted, callerAborted,
                   bodyRead>>
    /\ OthersUnchanged("fetch")

\* the backend sends one more chunk of the body
BodyChunk ==
    /\ conn = "body"
    /\ bodyRead < bodyLen
    /\ bodyRead' = bodyRead + 1
    /\ UNCHANGED <<site, httpStatus, bodyLen, fpc, timer, signalAborted,
                   callerAborted, conn, fetchError>>
    /\ OthersUnchanged("fetch")

\* the backend ends the body
BodyEnd ==
    /\ conn = "body"
    /\ bodyRead = bodyLen
    /\ conn' = "closed"
    /\ UNCHANGED <<site, httpStatus, bodyLen, fpc, timer, signalAborted,
                   callerAborted, bodyRead, fetchError>>
    /\ OthersUnchanged("fetch")

FetchNext ==
    \/ FetchCall
    \/ CallerAbort
    \/ TimerFire
    \/ BackendHeaders
    \/ NetworkFailure
    \/ BodyChunk
    \/ BodyEnd

FetchSpec == FetchInit /\ [][FetchNext]_vars

\* The steps the program itself schedules do happen: the call is made, and an
\* armed timer fires once OLLAMA_TIMEOUT has elapsed. Nothing obliges the
\* backend to answer, to go on sending or to end the body.
FairFetchSpec ==
    FetchSpec /\ WF_vars(FetchCall) /\ WF_vars(TimerFire)

---------------------------------------------------------------------------
(* Two runs of one turn with identical messages against a stub backend     *)
(* that answers both with the same tool calls.                             *)

MaxReplayCalls == 2

\* values crypto.randomUUID() can return
Uuids == 1..(MaxReplayCalls + 1)

\* values Math.random() can return
Randoms == {"r1", "r2"}

StubSeqs == UNION {[1..n -> {ToolNames[c] : c \in DOMAIN ToolNames}] :
                      n \in 1..MaxReplayCalls}

\* part_009:59-76, 83-91: analyze returns constants; analyzeKeywords returns
\* score: Math.random() for every keyword
ExecuteResult(name, rnd) ==
    IF name = "analyzeKeywords" THEN rnd ELSE "seoScore 85"

IdsDrawn(r) == {runOut[r][i].toolCallId : i \in DOMAIN runOut[r]}

RunDone(r) == runPos[r] = Len(stub)

ReplayInit ==
    /\ OthersIdle("replay")
    /\ replayKind \in {"stream", "tools"}
    /\ stub \in StubSeqs
    /\ runPos = [r \in Runs |-> 0]
    /\ runOut = [r \in Runs |-> <<>>]

\* part_007:300-315: run r enqueues the tool-call-delta of its next call under
\* the id crypto.randomUUID() returns
ReplayDelta(r, id) ==
    /\ replayKind = "stream"
    /\ ~RunDone(r)
    /\ id \notin IdsDrawn(r)
    /\ runOut' = [runOut EXCEPT ![r] =
                    Append(@, [toolName |-> stub[runPos[r] + 1],
                               toolCallId |-> id, result |-> "none"])]
    /\ runPos' = [runPos EXCEPT ![r] = @ + 1]
    /\ UNCHANGED <<replayKind, stub>>
    /\ OthersUnchanged("replay")

\* part_009:83-91: run r executes the handler of its next call; the call's id
\* is the one the stub gave
ReplayExecute(r, rnd) ==
    /\ replayKind = "tools"
    /\ ~RunDone(r)
    /\ runOut' = [runOut EXCEPT ![r] =
                    Append(@, [toolName |-> stub[runPos[r] + 1],
                               toolCallId |-> runPos[r] + 1,
                               result |-> ExecuteResult(stub[runPos[r] + 1], rnd)])]
    /\ runPos' = [runPos EXCEPT ![r] = @ + 1]
    /\ UNCHANGED <<replayKind, stub>>
    /\ OthersUnchanged("replay")

ReplayNext ==
    \/ \E r \in Runs, id \in Uuids : ReplayDelta(r, id)
    \/ \E r \in Runs, rnd \in Randoms : ReplayExecute(r, rnd)

ReplaySpec == ReplayInit /\ [][ReplayNext]_vars

---------------------------------------------------------------------------
(* The tool handlers of tools/index.ts work on instances created once at   *)
(* module load (tools/index.ts:63-69); every conversation's tool calls     *)
(* reach the same webpageScraper and the same memoryVectorStore.           *)

MaxDocuments == 2

DefaultLimit == 5

Urls == {"u1", "u2"}

Keys == {"k1", "k2"}

Queries == {"q1", "q2"}

\* whether the page at url has a heading or text that includes the query
PageIncludes(url, q) == q = "q1" \/ url = "u2"

\* part_002:150: this.websites.set(url, websiteContent) replaces the entry
MapSet(m, url, entry) == {w \in m : w.url # url} \cup {entry}

\* part_002:158-175: search() goes over this.websites.values(), all of them
SearchResults(q) == {w \in websites : PageIncludes(w.url, q)}

\* MemoryVectorStore.ts:43-52: the documents stored under the key, at most
\* `limit` of them
RelevantChunks(key, limit) ==
    LET hits == SelectSeq(documents, LAMBDA doc : doc.key = key)
    IN SubSeq(hits, 1, IF Len(hits) < limit THEN Len(hits) ELSE limit)

WritersOf(chunks) == {chunks[i].by : i \in DOMAIN chunks}

SharedInit ==
    /\ OthersIdle("shared")
    /\ websites = {}
    /\ documents = <<>>
    /\ observed = [c \in Conversations |-> {}]

\* tools/index.ts:162-165, part_002:116-151: scrapeWebsite in conversation c
\* (a failed fetch rethrows at part_002:152-155 and writes nothing)
ScrapeWebsite(c, url) ==
    /\ websites' = MapSet(websites, url, [url |-> url, by |-> c])
    /\ observed' = [observed EXCEPT ![c] = @ \cup {c}]
    /\ UNCHANGED documents
    /\ OthersUnchanged("shared")

\* tools/index.ts:172-174: searchWebsite in conversation c
SearchWebsite(c, q) ==
    /\ observed' = [observed EXCEPT ![c] =
                       @ \cup {w.by : w \in SearchResults(q)}]
    /\ UNCHANGED <<websites, documents>>
    /\ OthersUnchanged("shared")

\* tools/index.ts:247-250, MemoryVectorStore.ts:17-30: storeVectors in c
StoreVectors(c, key) ==
    /\ Len(documents) < MaxDocuments
    /\ documents' = Append(documents, [key |-> key, by |-> c])
    /\ UNCHANGED <<websites, observed>>
    /\ OthersUnchanged("shared")

\* tools/index.ts:259-261, MemoryVectorStore.ts:32-53: getRelevantChunks in c
GetRelevantChunks(c, key) ==
    /\ observed' = [observed EXCEPT ![c] =
                       @ \cup WritersOf(RelevantChunks(key, DefaultLimit))]
    /\ UNCHANGED <<websites, documents>>
    /\ OthersUnchanged("shared")

SharedNext ==
    \/ \E c \in Conversations, url \in Urls : ScrapeWebsite(c, url)
    \/ \E c \in Conversations, q \in Queries : SearchWebsite(c, q)
    \/ \E c \in Conversations, key \in Keys : StoreVectors(c, key)
    \/ \E c \in Conversations, key \in Keys : GetRelevantChunks(c, key)

SharedSpec == SharedInit /\ [][SharedNext]_vars

---------------------------------------------------------------------------
(* AIMemory.addToMemory (part_010:65-91) called for one chatId by callers  *)
(* that do not wait for each other.                                        *)

MaxMessages == 8

ProcessThreshold == 5

InSeq(m, q) == \E i \in DOMAIN q : q[i] = m

\* the batches passed to processMessages that contain message m
BatchesWith(m) == {b \in DOMAIN batches : InSeq(m, batches[b])}

MemoryInit ==
    /\ OthersIdle("memory")
    /\ stored = FALSE
    /\ shortTerm = <<>>
    /\ longTerm = <<>>
    /\ added = 0
    /\ batches = <<>>
    /\ processing = {}

\* part_010:66-82: the memory is created if absent, the message pushed, and
\* at ProcessThreshold messages processMessages is called with shortTerm,
\* which it reads (part_010:99) before its first await
AddToMemory ==
    /\ added < MaxMessages
    /\ added' = added + 1
    /\ stored' = TRUE
    /\ shortTerm' = Append(shortTerm, added + 1)
    /\ IF Len(shortTerm') >= ProcessThreshold
       THEN /\ batches' = Append(batches, shortTerm')
            /\ processing' = processing \cup {Len(batches) + 1}
       ELSE UNCHANGED <<batches, processing>>
    /\ UNCHANGED longTerm
    /\ OthersUnchanged("memory")

\* part_010:82-84: processMessages resolves for batch b (with facts, or with
\* [] after an error, part_010:133-136); the facts are pushed to longTerm and
\* shortTerm is replaced by a new empty array
ProcessReturn(b, facts) ==
    /\ b \in processing
    /\ processing' = processing \ {b}
    /\ longTerm' = IF facts THEN Append(longTerm, b) ELSE longTerm
    /\ shortTerm' = <<>>
    /\ UNCHANGED <<stored, added, batches>>
    /\ OthersUnchanged("memory")

MemoryNext ==
    \/ AddToMemory
    \/ \E b \in 1..MaxMessages, facts \in BOOLEAN : ProcessReturn(b, facts)

MemorySpec == MemoryInit /\ [][MemoryNext]_vars

---------------------------------------------------------------------------
(* The chat route: POST (route.ts:18-104) and DELETE (route.ts:106-129).   *)

\* a handler that invokes the agent right after saveChat
MutAfterSaveChatSkipsUser == "agent"

\* route.ts:42-57: after saveChat comes the saving of the user message
AfterSaveChat == "saveUser"

\* a handler that goes on after finding no session
MutNoSessionGoesOn(m) == IF m = "POST" THEN "saveChat" ELSE "delete"

\* route.ts:25-27, 117-119: without a session the handler returns at once
NoSessionNext(m) == "done"

\* the Response a handler returns ends it
Respond(st) == rpc' = "done" /\ respStatus' = st

RouteInit ==
    /\ OthersIdle("route")
    /\ method \in {"POST", "DELETE"}
    /\ bodyOk \in BOOLEAN
    /\ hasId \in BOOLEAN
    /\ hasSession \in BOOLEAN
    /\ latestRole \in {"user", "assistant"}
    /\ rpc = "start"
    /\ routeCalls = <<>>
    /\ saved = {}
    /\ agentOutcome = "none"
    /\ respStatus = 0

\* route.ts:20-21: request.json() throws on a body that is no JSON (catch: 500);
\* route.ts:108-113: a DELETE without id is answered 400
RouteParse ==
    /\ rpc = "start"
    /\ IF method = "POST"
       THEN IF bodyOk THEN rpc' = "auth" /\ UNCHANGED respStatus
                      ELSE Respond(500)
       ELSE IF hasId THEN rpc' = "auth" /\ UNCHANGED respStatus
                     ELSE Respond(400)
    /\ UNCHANGED <<method, bodyOk, hasId, hasSession, latestRole, routeCalls,
                   saved, agentOutcome>>
    /\ OthersUnchanged("route")

\* route.ts:24-27, 116-119: auth() resolves (or throws: catch, 500); without a
\* user id the handler answers 401
RouteAuth(resolves) ==
    /\ rpc = "auth"
    /\ IF ~resolves THEN Respond(500)
       ELSE IF ~hasSession
            THEN /\ rpc' = NoSessionNext(method)
                 /\ respStatus' = 401
       ELSE /\ rpc' = (IF method = "POST" THEN "saveChat" ELSE "delete")
            /\ UNCHANGED respStatus
    /\ UNCHANGED <<method, bodyOk, hasId, hasSession, latestRole, routeCalls,
                   saved, agentOutcome>>
    /\ OthersUnchanged("route")

\* route.ts:30-40: saveChat; a primary-key conflict is swallowed, any other
\* error is rethrown to the outer catch (500)
SaveChat(result) ==
    /\ rpc = "saveChat"
    /\ routeCalls' = Append(routeCalls, "saveChat")
    /\ IF result = "error" THEN Respond(500)
       ELSE rpc' = AfterSaveChat /\ UNCHANGED respStatus
    /\ UNCHANGED <<method, bodyOk, hasId, hasSession, latestRole, saved,
                   agentOutcome>>
    /\ OthersUnchanged("route")

\* route.ts:43-57: the latest message is saved if it is a user message
SaveUserMessage(ok) ==
    /\ rpc = "saveUser"
    /\ IF latestRole = "user"
       THEN /\ routeCalls' = Append(routeCalls, "saveMessages user")
            /\ IF ok THEN /\ saved' = saved \cup {"user"}
                          /\ rpc' = "agent"
                          /\ UNCHANGED respStatus
                     ELSE Respond(500) /\ UNCHANGED saved
       ELSE /\ rpc' = "agent"
            /\ UNCHANGED <<routeCalls, saved, respStatus>>
    /\ UNCHANGED <<method, bodyOk, hasId, hasSession, latestRole, agentOutcome>>
    /\ OthersUnchanged("route")

\* route.ts:63-64: new SEOAgent, await agent.chat(messages); a throw goes to
\* the catch (route.ts:100-103), which answers 500
AgentChat(ok) ==
    /\ rpc = "agent"
    /\ routeCalls' = Append(routeCalls, "agent.chat")
    /\ IF ok THEN /\ agentOutcome' = "returned"
                  /\ rpc' = "saveAssistant"
                  /\ UNCHANGED respStatus
             ELSE agentOutcome' = "threw" /\ Respond(500)
    /\ UNCHANGED <<method, bodyOk, hasId, hasSession, latestRole, saved>>
    /\ OthersUnchanged("route")

\* route.ts:67-99: the assistant message is saved, then the Response with the
\* body stream is returned
SaveAssistantMessage(ok) ==
    /\ rpc = "saveAssistant"
    /\ routeCalls' = Append(routeCalls, "saveMessages assistant")
    /\ IF ok THEN saved' = saved \cup {"assistant"} /\ Respond(200)
             ELSE Respond(500) /\ UNCHANGED saved
    /\ UNCHANGED <<method, bodyOk, hasId, hasSession, latestRole, agentOutcome>>
    /\ OthersUnchanged("route")

\* route.ts:122-124: deleteChatById, then 204
DeleteChat(ok) ==
    /\ rpc = "delete"
    /\ routeCalls' = Append(routeCalls, "deleteChatById")
    /\ IF ok THEN Respond(204) ELSE Respond(500)
    /\ UNCHANGED <<method, bodyOk, hasId, hasSession, latestRole, saved,
                   agentOutcome>>
    /\ OthersUnchanged("route")

RouteNext ==
    \/ RouteParse
    \/ \E resolves \in BOOLEAN : RouteAuth(resolves)
    \/ \E result \in {"ok", "exists", "error"} : SaveChat(result)
    \/ \E ok \in BOOLEAN : SaveUserMessage(ok)
    \/ \E ok \in BOOLEAN : AgentChat(ok)
    \/ \E ok \in BOOLEAN : SaveAssistantMessage(ok)
    \/ \E ok \in BOOLEAN : DeleteChat(ok)

RouteSpec == RouteInit /\ [][RouteNext]_vars

IndexOf(q, x) == CHOOSE i \in DOMAIN q : q[i] = x

---------------------------------------------------------------------------
(* WebpageScraper.scrapeWebsite of the scripts (WebpageScraper.ts:99-149), *)
(* called any number of times on one instance.                             *)

MaxPagesBound == 2

MaxDepthBound == 1

\* a guard that does not look at the seen set
MutLimitsIgnoreSeen(url, depth) ==
    depth > maxDepth \/ Cardinality(seen) >= maxPages

\* WebpageScraper.ts:100
LimitsReached(url, depth) ==
    url \in seen \/ depth > maxDepth \/ Cardinality(seen) >= maxPages

ScraperInit ==
    /\ OthersIdle("scraper")
    /\ maxDepth \in 0..MaxDepthBound
    /\ maxPages \in 0..MaxPagesBound
    /\ seen = {}
    /\ fetched = [u \in ScrapeUrls |-> 0]
    /\ scraping = {}
    /\ failed = {}
    /\ lastScrape = NoScrape

\* WebpageScraper.ts:100-108: the guard throws the limits error, or the url is
\* added to seen and fetch(url) issued; no await lies between guard and add
ScrapeCall(url, depth) ==
    /\ IF LimitsReached(url, depth)
       THEN /\ lastScrape' = [url |-> url, outcome |-> "limits"]
            /\ UNCHANGED <<seen, fetched, scraping>>
       ELSE /\ seen' = seen \cup {url}
            /\ fetched' = [fetched EXCEPT ![url] = @ + 1]
            /\ scraping' = scraping \cup {url}
            /\ lastScrape' = [url |-> url, outcome |-> "fetching"]
    /\ UNCHANGED <<maxDepth, maxPages, failed>>
    /\ OthersUnchanged("scraper")

\* WebpageScraper.ts:108-148: the fetch settles; the page is returned, or the
\* error (rejected fetch, status not ok, parse error) is logged and rethrown;
\* neither path touches seen
ScrapeSettle(url, ok) ==
    /\ url \in scraping
    /\ scraping' = scraping \ {url}
    /\ failed' = IF ok THEN failed ELSE failed \cup {url}
    /\ lastScrape' = [url |-> url, outcome |-> IF ok THEN "returned" ELSE "threw"]
    /\ UNCHANGED <<maxDepth, maxPages, seen, fetched>>
    /\ OthersUnchanged("scraper")

ScraperNext ==
    \/ \E url \in ScrapeUrls, depth \in 0..(MaxDepthBound + 1) : ScrapeCall(url, depth)
    \/ \E url \in ScrapeUrls, ok \in BOOLEAN : ScrapeSettle(url, ok)

ScraperSpec == ScraperInit /\ [][ScraperNext]_vars

---------------------------------------------------------------------------
(* ResearchCrawler.researchTopic (ResearchCrawler.ts:56-95): four crawls,  *)
(* each raced against a 10 s timer, gathered with Promise.allSettled.      *)

\* results gathered from the crawls themselves, whatever their race said
MutSuccessfulFromCrawl(settled, crawled) ==
    SelectSeq([i \in Sources |-> i], LAMBDA i : crawled[i] = "fulfilled")

\* ResearchCrawler.ts:79-81: the fulfilled entries of results, in source order
SuccessfulResults(settled, crawled) ==
    SelectSeq([i \in Sources |-> i], LAMBDA i : settled[i] = "fulfilled")

\* Promise.race: the first of the two to settle decides, later ones are ignored
RaceAfter(i, how) ==
    IF race[i] = "pending" THEN [race EXCEPT ![i] = how] ELSE race

CrawlerInit ==
    /\ OthersIdle("crawler")
    /\ crawl = [i \in Sources |-> "pending"]
    /\ race = [i \in Sources |-> "pending"]
    /\ research = NoResearch

\* ResearchCrawler.ts:97-145: crawlPage of source i resolves with its page
CrawlFulfil(i) ==
    /\ crawl[i] = "pending"
    /\ crawl' = [crawl EXCEPT ![i] = "fulfilled"]
    /\ race' = RaceAfter(i, "fulfilled")
    /\ UNCHANGED research
    /\ OthersUnchanged("crawler")

\* ResearchCrawler.ts:146-149: crawlPage of source i logs and rethrows
CrawlReject(i) ==
    /\ crawl[i] = "pending"
    /\ crawl' = [crawl EXCEPT ![i] = "rejected"]
    /\ race' = RaceAfter(i, "rejected")
    /\ UNCHANGED research
    /\ OthersUnchanged("crawler")

\* ResearchCrawler.ts:69-71: the timer of source i fires before its crawl has
\* settled (fired later, its reject is ignored by the race)
CrawlTimeout(i) ==
    /\ race[i] = "pending"
    /\ race' = RaceAfter(i, "timeout")
    /\ UNCHANGED <<crawl, research>>
    /\ OthersUnchanged("crawler")

\* ResearchCrawler.ts:75-94: allSettled resolved; the fallback content, or the
\* result over the fulfilled crawls, whose relevance is the similarity or,
\* when the embeddings fail, the 0.5 of calculateRelevance's catch (152-161)
ResearchReturn(embedded) ==
    /\ research.kind = "pending"
    /\ \A i \in Sources : race[i] # "pending"
    /\ research' =
          IF SuccessfulResults(race, crawl) = <<>>
          THEN [kind |-> "fallback", sources |-> <<>>, relevance |-> "one"]
          ELSE [kind |-> "result", sources |-> SuccessfulResults(race, crawl),
                relevance |-> IF embedded THEN "similarity" ELSE "half"]
    /\ UNCHANGED <<crawl, race>>
    /\ OthersUnchanged("crawler")

CrawlerNext ==
    \/ \E i \in Sources : CrawlFulfil(i)
    \/ \E i \in Sources : CrawlReject(i)
    \/ \E i \in Sources : CrawlTimeout(i)
    \/ \E embedded \in BOOLEAN : ResearchReturn(embedded)

CrawlerSpec == CrawlerInit /\ [][CrawlerNext]_vars


---------------------------------------------------------------------------
(* deleteTrailingMessages (app/(chat)/chat/[id]/page.tsx:138-155) over the  *)
(* Message and Vote tables of lib/db, with saveMessages and voteMessage    *)
(* filling the tables.  The database is better-sqlite3, which enforces the  *)
(* declared foreign keys; deleteChatById deletes the votes of a chat before *)
(* its messages for that reason (queries.ts:110-115).                       *)

MaxTime == 2

\* createdAt values, in the unit the column stores
Times == 1..MaxTime

\* db.select().from(message).where(eq(message.id, id))
RowsWithId(id) == {r \in messageTable : r.id = id}

\* and(eq(message.chatId, chatId), gte(message.createdAt, timestamp))
RowsFrom(table, chatId, timestamp) ==
    {r \in table : r.chatId = chatId /\ r.createdAt >= timestamp}

IdsOf(rows) == {r.id : r \in rows}

\* Vote.messageId references Message.id (ON DELETE no action): a statement
\* that would delete a referenced row fails as a whole
Referenced(rows) ==
    \E v \in voteTable : \E r \in rows : v.messageId = r.id

DbInit ==
    /\ OthersIdle("db")
    /\ messageTable = {}
    /\ voteTable = {}
    /\ dtmPc = "idle"
    /\ dtmRow = NoRow
    /\ dtmResult = NoDtm

\* queries.ts:165-183: one row is inserted; id is the primary key
SaveMessages(id, chatId, createdAt) ==
    /\ RowsWithId(id) = {}
    /\ messageTable' = messageTable \cup
           {[id |-> id, chatId |-> chatId, createdAt |-> createdAt]}
    /\ UNCHANGED <<voteTable, dtmPc, dtmRow, dtmResult>>
    /\ OthersUnchanged("db")

\* queries.ts:205-235: the first vote on a message inserts a row (a later one
\* updates isUpvoted only); the row needs its message to exist
VoteMessage(chatId, messageId) ==
    /\ RowsWithId(messageId) # {}
    /\ \A v \in voteTable : v.messageId # messageId
    /\ voteTable' = voteTable \cup
           {[chatId |-> chatId, messageId |-> messageId]}
    /\ UNCHANGED <<messageTable, dtmPc, dtmRow, dtmResult>>
    /\ OthersUnchanged("db")

\* page.tsx:140-145: the row is looked up; without one the call warns and
\* returns
DtmGetMessage(id) ==
    /\ dtmPc \in {"idle", "done"}
    /\ IF RowsWithId(id) = {}
       THEN /\ dtmPc' = "done"
            /\ dtmRow' = NoRow
            /\ dtmResult' = [id |-> id, found |-> FALSE,
                             matched |-> {}, deleted |-> {},
                             outcome |-> "returned"]
       ELSE /\ dtmPc' = "found"
            /\ dtmRow' = CHOOSE r \in RowsWithId(id) : TRUE
            /\ UNCHANGED dtmResult
    /\ UNCHANGED <<messageTable, voteTable>>
    /\ OthersUnchanged("db")

\* page.tsx:147-154 and queries.ts:372-391: one DELETE statement; when it
\* fails the error is logged and rethrown by both functions
DtmDelete ==
    /\ dtmPc = "found"
    /\ LET rows == RowsFrom(messageTable, dtmRow.chatId, dtmRow.createdAt)
           fails == Referenced(rows)
       IN /\ messageTable' = IF fails THEN messageTable
                                      ELSE messageTable \ rows
          /\ dtmResult' = [id |-> dtmRow.id, found |-> TRUE,
                           matched |-> IdsOf(rows),
                           deleted |-> IdsOf(messageTable \ messageTable'),
                           outcome |-> IF fails THEN "threw" ELSE "returned"]
    /\ dtmPc' = "done"
    /\ UNCHANGED <<voteTable, dtmRow>>
    /\ OthersUnchanged("db")

DbNext ==
    \/ \E id \in MessageIds, c \in ChatIds, t \in Times : SaveMessages(id, c, t)
    \/ \E c \in ChatIds, id \in MessageIds : VoteMessage(c, id)
    \/ \E id \in MessageIds : DtmGetMessage(id)
    \/ DtmDelete

DbSpec == DbInit /\ [][DbNext]_vars


---------------------------------------------------------------------------
(* ResearchCrawler.generateBlogPost of lib (ResearchCrawler.ts:229-304),    *)
(* after its research has returned: the word budget of the sections.  The   *)
(* products with 0.15 and 0.8 are computed in hundredths; for the integers  *)
(* drawn here the doubles of the code floor to the same values.            *)

MaxTarget == 40

MaxSectionsBound == 5

\* the number of words of a section's base content is at most this
MaxWords == 3

\* baseContent.split(/\s+/).length, which is never 0
WordCounts == 1..MaxWords

Min(a, b) == IF a < b THEN a ELSE b

Max(a, b) == IF a > b THEN a ELSE b

\* Math.floor(a / b) for b > 0
Floor(a, b) == a \div b

\* Math.ceil(a / b) for b > 0
Ceil(a, b) == 0 - ((0 - a) \div b)

RECURSIVE SumWords(_)
\* sections.reduce((sum, section) => sum + section.wordCount, 0)
SumWords(q) == IF q = <<>> THEN 0 ELSE Head(q) + SumWords(Tail(q))

\* ResearchCrawler.ts:248
MainSectionCount == Max(minSections - 2, 2)

\* ResearchCrawler.ts:241: the words asked of the introduction
IntroTarget ==
    Min(remainingWords, Floor(targetWordCount * 15, 100))

\* ResearchCrawler.ts:249
WordsPerMain(remaining) == Floor(remaining * 80, 100 * MainSectionCount)

\* ResearchCrawler.ts:291-292
Repetitions(targetWords, words) == Ceil(targetWords, Max(words, 1))

\* Array(repetitions) throws RangeError for a negative length
SectionThrows(targetWords, words) == Repetitions(targetWords, words) < 0

\* a section that counts the words of the content it generated
MutWordCountOfContent(targetWords, words) ==
    Repetitions(targetWords, words) * words

\* ResearchCrawler.ts:300: wordCount: targetWords
SectionWordCount(targetWords, words) == targetWords

BlogInit ==
    /\ OthersIdle("blog")
    /\ targetWordCount \in (0 - MaxTarget)..MaxTarget
    /\ minSections \in (0 - 1)..MaxSectionsBound
    /\ remainingWords = targetWordCount
    /\ wordsPerMainSection = 0
    /\ sections = <<>>
    /\ bpc = "intro"
    /\ blog = NoBlog

BlogThrow ==
    /\ bpc' = "done"
    /\ blog' = [kind |-> "threw", totalWordCount |-> 0]
    /\ UNCHANGED <<remainingWords, wordsPerMainSection, sections>>

\* ResearchCrawler.ts:237-249: the introduction, whose base content has
\* `words` words, and the budget of a main section
BlogIntroduction(words) ==
    /\ bpc = "intro"
    /\ IF SectionThrows(IntroTarget, words)
       THEN BlogThrow
       ELSE LET wc == SectionWordCount(IntroTarget, words)
            IN /\ sections' = <<wc>>
               /\ remainingWords' = remainingWords - wc
               /\ wordsPerMainSection' = WordsPerMain(remainingWords')
               /\ bpc' = "main"
               /\ UNCHANGED blog
    /\ UNCHANGED <<targetWordCount, minSections>>
    /\ OthersUnchanged("blog")

\* ResearchCrawler.ts:251-263: one turn of the loop
BlogMainSection(words) ==
    /\ bpc = "main"
    /\ Len(sections) - 1 < MainSectionCount
    /\ IF SectionThrows(wordsPerMainSection, words)
       THEN BlogThrow
       ELSE LET wc == SectionWordCount(wordsPerMainSection, words)
            IN /\ sections' = Append(sections, wc)
               /\ remainingWords' = remainingWords - wc
               /\ UNCHANGED <<wordsPerMainSection, bpc, blog>>
    /\ UNCHANGED <<targetWordCount, minSections>>
    /\ OthersUnchanged("blog")

\* ResearchCrawler.ts:265-281: the conclusion and the returned total
BlogConclusion(words) ==
    /\ bpc = "main"
    /\ Len(sections) - 1 = MainSectionCount
    /\ IF SectionThrows(remainingWords, words)
       THEN BlogThrow
       ELSE /\ sections' =
                  Append(sections, SectionWordCount(remainingWords, words))
            /\ blog' = [kind |-> "returned",
                        totalWordCount |-> SumWords(sections')]
            /\ bpc' = "done"
            /\ UNCHANGED <<remainingWords, wordsPerMainSection>>
    /\ UNCHANGED <<targetWordCount, minSections>>
    /\ OthersUnchanged("blog")

BlogNext ==
    \/ \E words \in WordCounts : BlogIntroduction(words)
    \/ \E words \in WordCounts : BlogMainSection(words)
    \/ \E words \in WordCounts : BlogConclusion(words)

BlogSpec == BlogInit /\ [][BlogNext]_vars

---------------------------------------------------------------------------
(* C1: in every chat() invocation the fallback generation is started at    *)
(* most once, and a failure of the fallback starts neither another         *)
(* fallback nor the primary path again: chat() is over.                    *)
FallbackAtMostOnce ==
    /\ fallbackStarts <= 1
    /\ primaryStarts <= 1
    /\ Cardinality(FallbackCalls) <= 1
    /\ surfaced.origin = "fallback" => pc = "done" /\ outcome = "threw"

\* C1 witness: the fallback ran once and failed
FallbackFailedOnce ==
    /\ fallbackStarts = 1
    /\ pc = "done"
    /\ outcome = "threw"
    /\ surfaced.origin = "fallback"

(* C2: when the primary path and the single fallback both fail, the error  *)
(* chat() surfaces is the original primary-path error.                     *)
OriginalErrorSurfaced ==
    (pc = "done" /\ outcome = "threw" /\ fallbackStarts = 1)
        => surfaced = primaryError

(* C3: when the first backend call of the primary path fails with a        *)
(* transport error, chat() makes exactly one fallback generate call, with  *)
(* no tools and no streaming, on the same messages, executes no tool on    *)
(* that path, and returns that call's text.                                *)
FallbackReturnsPlainText ==
    (/\ pc = "done"
     /\ outcome = "returned"
     /\ primaryError.kind = "NetworkError"
     /\ Len(backendCalls) >= 1
     /\ issued[1] = {})
        => /\ Cardinality(FallbackCalls) = 1
           /\ \A i \in FallbackCalls :
                 /\ ~backendCalls[i].tools
                 /\ ~backendCalls[i].stream
                 /\ backendCalls[i].messages = messages
                 /\ backendCalls[i].history = 0
                 /\ issued[i] = {}
           /\ handlerReturned = {} /\ handlerThrew = {} /\ running = {}
           /\ returnValue.kind = "generateTextResult"
           /\ returnValue.text = curText
           /\ returnValue.toolResults = <<>>

\* C3 witness: step 1 failed on the network and the fallback answered "b"
FallbackAnswered ==
    /\ pc = "done"
    /\ outcome = "returned"
    /\ primaryError.kind = "NetworkError"
    /\ Len(backendCalls) = 2
    /\ returnValue.text = "b"

AlwaysToolCallsRunsMaxSteps ==
    (pc = "done" /\ AlwaysRequestsTools)
        => /\ Cardinality(PrimaryCalls) = maxSteps
           /\ outcome = "returned"
           /\ Truncated

(* C6: a tool handler that throws does not abort the run and does not      *)
(* trigger the fallback path.                                              *)
ToolErrorNeverAborts ==
    handlerThrew # {} => fallbackStarts = 0 /\ outcome # "threw"

(* C7: within one step, an exception in one handler does not drop the      *)
(* result of a sibling call: every sibling that returned has its result    *)
(* in the step.                                                            *)
SiblingResultsKept ==
    (pc = "done" /\ running = {})
        => \A r \in handlerReturned :
              /\ r[1] <= Len(hookSteps)
              /\ r[2] \in hookSteps[r[1]].toolResults

(* C8: for every step, the recorded tool results correspond one to one to  *)
(* the tool calls issued in the step.                                      *)
OneResultPerCall ==
    (pc = "done" /\ running = {})
        => /\ \A i \in DOMAIN issued :
                 issued[i] # {} =>
                    /\ i <= Len(hookSteps)
                    /\ hookSteps[i].toolResults = issued[i]
           /\ \A i \in DOMAIN hookSteps :
                 hookSteps[i].toolResults \subseteq issued[i]

FirstStepNoToolsEndsRun ==
    (Len(hookSteps) >= 1 /\ hookSteps[1].toolCalls = {})
        => /\ pc = "done"
           /\ outcome = "returned"
           /\ Len(hookSteps) = 1
           /\ Len(backendCalls) = 1
           /\ fallbackStarts = 0
           /\ handlerReturned = {} /\ handlerThrew = {} /\ running = {}

\* C10 witness: a run allowed several steps ended on a first step without calls
EndedAfterOneStep ==
    /\ maxSteps = MaxStepsBound
    /\ Len(hookSteps) = 1
    /\ hookSteps[1].toolCalls = {}
    /\ pc = "done"

(* C11: when a tool call's arguments do not match the tool's parameter     *)
(* shape, no handler of that call is invoked and the call ends as a        *)
(* validation-error result of its step, the run going on rather than       *)
(* being aborted by the validation error.                                  *)
InvalidArgsBecomeResult ==
    \A g \in DOMAIN requested :
        requested[g].invalid # {}
            => /\ issued[g] \cap requested[g].invalid = {}
               /\ primaryError.kind # "InvalidToolArgumentsError"

(* C17: the value chat() returns reports a finish on pending tool calls    *)
(* only when the step count reached maxSteps on a step that had tool       *)
(* calls; a run whose last step had no tool calls never reports it.        *)
TruncatedOnlyAtLimit ==
    (pc = "done" /\ outcome = "returned")
        => /\ returnValue.finishReason = "tool-calls"
                => /\ path = "primary"
                   /\ stepCount = maxSteps
                   /\ returnValue.nSteps = maxSteps
                   /\ hookSteps[Len(hookSteps)].toolCalls # {}
           /\ steps[Len(steps)].toolCalls = {}
                => returnValue.finishReason # "tool-calls"

\* C17 witness: a run of several steps returned at the limit with calls pending
ReturnedAtLimitWithCalls ==
    /\ pc = "done"
    /\ outcome = "returned"
    /\ maxSteps > 1
    /\ returnValue.finishReason = "tool-calls"
    /\ returnValue.nSteps = maxSteps

TextDeltasPreserveText ==
    closed => DeltaText(emitted) = BackendText(records)

(* C13: the parts enqueued do not depend on how the body is cut into       *)
(* chunks: a line split over two chunks yields its one part, as if every   *)
(* line had arrived whole.                                                 *)
ChunkingIndependent ==
    closed => emitted = Transform(Wire(records), 0)

(* C19: all the argument fragments of one tool call are enqueued as        *)
(* tool-call-delta parts that carry the same tool call id.                 *)
FragmentsShareId ==
    \A i, j \in DeltasIn(emitted) :
        emitted[i].call = emitted[j].call
            => emitted[i].toolCallId = emitted[j].toolCallId

(* C20: when the turn is over, every tool call that had a delta has        *)
(* exactly one completing tool-call part, and a finish part is the last    *)
(* part of the stream, after all of them.                                  *)
EveryCallCompletedBeforeFinish ==
    closed
        => /\ \A i \in DeltasIn(emitted) :
                Cardinality({k \in DOMAIN emitted :
                                /\ emitted[k].type = "tool-call"
                                /\ emitted[k].call = emitted[i].call}) = 1
           /\ DeltasIn(emitted) # {}
                => emitted[Len(emitted)].type = "finish"

(* C14: once the caller has aborted the run, the abort reaches the request *)
(* in flight: its connection does not stay open, and no timer of the call  *)
(* stays armed.                                                            *)
CallerAbortClosesRequest ==
    callerAborted ~> (~ConnLive /\ ~TimerLive)

(* C15: two runs with identical messages against a backend stub that       *)
(* answers both alike produce the same tool calls with the same ids, the   *)
(* same arguments and the same results.                                    *)
RunsIdentical ==
    (\A r \in Runs : RunDone(r)) => runOut[1] = runOut[2]

(* C16: nothing written while serving one conversation (a scraped page, a  *)
(* stored vector) is returned to a tool call of another conversation.      *)
ConversationsIsolated ==
    \A c \in Conversations : observed[c] \subseteq {c}

(* C21: a line that failed to parse is never dropped with the stream       *)
(* ending as if it had succeeded: the stream does not end normally after   *)
(* a parse failure.                                                        *)
ParseFailureFailsStream ==
    closed => dropped = 0

(* C29: the wrapper's abort timer is pending only while the wrapper is     *)
(* awaiting the response: once it has returned or thrown the timer is not  *)
(* armed, and if the abort fired, it fired on the pending call, which      *)
(* rejected with the abort.                                                *)
TimerOnlyWhileAwaiting ==
    /\ TimerLive => fpc = "awaiting"
    /\ fpc \in {"returned", "threw"} => ~TimerLive
    /\ signalAborted => fpc = "threw" /\ fetchError = "AbortError"

\* C29 witness: the wrapper threw on a status that is not ok, timer cleared
ThrewOnStatusTimerCleared ==
    /\ site = "wrapper"
    /\ fpc = "threw"
    /\ fetchError = "HTTPError"
    /\ timer = "cleared"

(* C22: the onStepFinish hook has no effect on the run: the value chat()   *)
(* returns is the value it returns when the hook has observed nothing,     *)
(* as if it were not installed.                                            *)
HookHasNoEffect ==
    (pc = "done" /\ outcome = "returned")
        => returnValue = ChatReturn(variant, gtResult, <<>>)

(* C23: under interleaved addToMemory calls for one chat, every message    *)
(* added is still in shortTerm or was in exactly one batch passed to       *)
(* processMessages; none is lost to the reset and none is processed twice. *)
EachMessageInOneBatch ==
    \A m \in 1..added :
        /\ Cardinality(BatchesWith(m)) <= 1
        /\ InSeq(m, shortTerm) \/ Cardinality(BatchesWith(m)) = 1

(* C24: in POST the user message is saved before the agent is invoked and  *)
(* the assistant message only after agent.chat returned; if agent.chat     *)
(* throws, no assistant message is saved, the answer is 500 and the saved  *)
(* user message remains; a body is answered only after the assistant       *)
(* message has been saved.                                                 *)
PersistAroundAgent ==
    /\ (InSeq("agent.chat", routeCalls) /\ latestRole = "user")
          => /\ "user" \in saved
             /\ IndexOf(routeCalls, "saveMessages user")
                   < IndexOf(routeCalls, "agent.chat")
    /\ InSeq("saveMessages assistant", routeCalls)
          => /\ agentOutcome = "returned"
             /\ IndexOf(routeCalls, "agent.chat")
                   < IndexOf(routeCalls, "saveMessages assistant")
    /\ agentOutcome = "threw"
          => /\ "assistant" \notin saved
             /\ ~InSeq("saveMessages assistant", routeCalls)
             /\ respStatus = 500
             /\ latestRole = "user" => "user" \in saved
    /\ respStatus = 200 => "assistant" \in saved

\* C24 witness: agent.chat threw after the user message was saved
AgentThrewAfterUserSaved ==
    /\ agentOutcome = "threw"
    /\ "user" \in saved
    /\ respStatus = 500

(* C25 as stated: a POST or DELETE without a session is answered 401 and   *)
(* performs none of saveChat, saveMessages, agent.chat, deleteChatById.    *)
NoSessionAlways401 ==
    (~hasSession /\ rpc = "done") => respStatus = 401 /\ routeCalls = <<>>

(* C25, amended: a POST or DELETE without a session performs none of       *)
(* saveChat, saveMessages, agent.chat or deleteChatById and is never       *)
(* answered 200 or 204; it is answered 401 whenever the handler reaches    *)
(* the session check and auth() resolves.                                  *)
NoSessionNoEffect ==
    ~hasSession
        => /\ routeCalls = <<>>
           /\ saved = {}
           /\ agentOutcome = "none"
           /\ respStatus \in {0, 400, 401, 500}
           /\ respStatus = 400 => (method = "DELETE" /\ ~hasId)
           /\ (rpc = "done" /\ respStatus # 401)
                 => \/ (method = "POST" /\ ~bodyOk)
                    \/ (method = "DELETE" /\ ~hasId)
                    \/ respStatus = 500

\* C25 witness: a well-formed request without a session was answered 401
Unauthorized401 ==
    /\ ~hasSession
    /\ rpc = "done"
    /\ respStatus = 401

(* C26: on one WebpageScraper the seen set only grows and never holds more *)
(* than maxPages urls; fetch is issued at most once for a url; a url whose *)
(* scrape failed stays in seen, so a later call for it gets the limits     *)
(* error and fetches nothing.                                              *)
SeenBoundsFetches ==
    /\ [](/\ Cardinality(seen) <= maxPages
          /\ \A u \in ScrapeUrls : fetched[u] <= 1
          /\ \A u \in ScrapeUrls : fetched[u] = 1 <=> u \in seen
          /\ failed \subseteq seen
          /\ lastScrape.outcome = "fetching" => lastScrape.url \notin failed)
    /\ [][seen \subseteq seen']_vars

\* C26 witness: a call for a url whose scrape had failed got the limits error
FailedUrlRejected ==
    /\ lastScrape.outcome = "limits"
    /\ lastScrape.url \in failed
    /\ Cardinality(seen) < maxPages

(* C27: researchTopic does not reject because of source failures: it       *)
(* returns only after each of the four raced crawls has fulfilled,         *)
(* rejected or timed out; if none fulfilled it returns the fallback with   *)
(* no sources, otherwise its sources are exactly the crawls that fulfilled *)
(* before their timeout, in source order.                                  *)
ResearchSettlesThenReturns ==
    research.kind # "pending"
        => /\ \A i \in Sources : race[i] \in {"fulfilled", "rejected", "timeout"}
           /\ research.kind \in {"fallback", "result"}
           /\ research.kind = "fallback"
                <=> (\A i \in Sources : race[i] # "fulfilled")
           /\ research.kind = "fallback" => research.sources = <<>>
           /\ \A i \in Sources :
                 InSeq(i, research.sources) <=> race[i] = "fulfilled"
           /\ \A j, k \in DOMAIN research.sources :
                 j < k => research.sources[j] < research.sources[k]

\* C27 witness: returned with a timed-out, a rejected and a fulfilled source
ReturnedWithMixedSources ==
    /\ research.kind = "result"
    /\ \E i \in Sources : race[i] = "timeout" /\ crawl[i] = "fulfilled"
    /\ \E i \in Sources : race[i] = "rejected"
    /\ Len(research.sources) = 2

(* C28: a finished deleteTrailingMessages(id) has deleted exactly the rows  *)
(* of the chat of message id whose createdAt is at least that of the       *)
(* message, the message included, and nothing else; when no row has the id *)
(* it deleted nothing and returned without error.                          *)
TrailingMessagesDeleted ==
    dtmResult.outcome # "none" =>
        IF dtmResult.found
        THEN dtmResult.deleted = dtmResult.matched
        ELSE dtmResult.deleted = {} /\ dtmResult.outcome = "returned"

====
